---- MODULE Spec2Model ----
(***************************************************************************)
(* A model of kinesisvideo.py: the KinesisVideo facade over the three      *)
(* Kinesis Video services, its four functools.lru_cache memoizers and the  *)
(* dynamic dispatch of __getattr__.                                        *)
(*                                                                         *)
(* Strings that callers and the control plane supply (stream names, ARNs,  *)
(* endpoint URLs, payloads) are numbered: 0 is the empty string '' and     *)
(* every n >= 1 a distinct non-empty string.  None is Python's None.       *)
(* Method and service names are the strings of the source.                 *)
(*                                                                         *)
(* Every thread that calls into the facade has a stack of _api_call        *)
(* activations; one action is one step of the activation on top, from one  *)
(* cache access or upstream call to the next.                              *)
(***************************************************************************)
EXTENDS Integers, Sequences, FiniteSets, TLC

VARIABLES
    models,     \* botocore's service data: service -> the method names of its clients
    methods,    \* self._methods of every constructed facade: self -> (method -> service)
    argsCache,  \* lru_cache of _get_client_by_arguments, least recently used first
    arnCache,   \* lru_cache of _get_arn_for_stream_name
    epCache,    \* lru_cache of _get_endpoint_for_stream_method
    svcCache,   \* lru_cache of _get_client_for_service
    stack,      \* thread -> its stack of _api_call activations, innermost last
    outcome,    \* thread -> how its last top-level dispatch ended
    trace,      \* thread -> the upstream events of its current top-level dispatch
    nextId,     \* identity of the next client object the session constructs
    ndisp,      \* number of top-level dispatches begun
    hist        \* history: what the resolvers executed, were answered and handed out

vars == <<models, methods, argsCache, arnCache, epCache, svcCache, stack, outcome,
          trace, nextId, ndisp, hist>>

----------------------------------------------------------------------------
\* Bounds of the model.

\* Top-level dispatches in one run of Spec.
MaxDispatch == 2
\* Largest numbered string a caller passes as StreamName.
MaxVal == 1
\* Top-level dispatches in one run of SpecLRU.
MaxDispatchLRU == 131
\* Top-level dispatches in one run of SpecThreads, of all threads together.
MaxDispatchThreads == 2
\* Facades constructed in one run of SpecFacades, the first one included.
MaxFacades == 2
\* Top-level dispatches in one run of SpecFacades, of all facades together.
MaxDispatchFacades == 2
\* Dispatches and calls of the resolver in one run of SpecResolver.
MaxDispatchResolver == 2
\* Top-level dispatches in one run of SpecLive.
MaxDispatchLive == 2
\* Dispatches beside a construction in one run of SpecConstruct.
MaxDispatchConstruct == 2

----------------------------------------------------------------------------
\* Values of the program.

None == -1

\* functools.lru_cache() is applied without arguments: maxsize is 128.
MaxSize == 128

CONTROL_SERVICES == <<"kinesisvideo">>
DATA_SERVICES == <<"kinesis-video-media", "kinesis-video-archived-media">>

Range(s) == {s[i] : i \in 1..Len(s)}

kwarg_map == [StreamName |-> "stream_name", StreamARN |-> "stream_arn"]

\* bool(v) of a string or None.
Truthy(v) == v # None /\ v # 0

\* The characters that str.upper() leaves as they are, among the printable
\* ASCII characters (the grave accent cannot be written here) and the letters
\* of Latin-1.
UpperKeeps ==
    {
     " ", "!", "\"", "#", "$", "%", "&", "'", "(", ")", "*", "+", ",", "-",
     ".", "/", "0", "1", "2", "3", "4", "5", "6", "7", "8", "9", ":", ";",
     "<", "=", ">", "?", "@", "A", "B", "C", "D", "E", "F", "G", "H", "I",
     "J", "K", "L", "M", "N", "O", "P", "Q", "R", "S", "T", "U", "V", "W",
     "X", "Y", "Z", "[", "\\", "]", "^", "_", "{", "|", "}", "~",
     "ª", "º", "À", "Á", "Â", "Ã", "Ä", "Å", "Æ", "Ç", "È", "É", "Ê", "Ë",
     "Ì", "Í", "Î", "Ï", "Ð", "Ñ", "Ò", "Ó", "Ô", "Õ", "Ö", "Ø", "Ù", "Ú",
     "Û", "Ü", "Ý", "Þ"}

\* str.upper() on one character, for the printable ASCII characters and the
\* letters of Latin-1 (but y with diaeresis, whose capital cannot be written
\* here).  The upper case of a character may be two characters, or a letter
\* of another alphabet.  Names in other characters are outside the model: no
\* arm applies to them.
UpperChar(c) ==
    CASE c \in UpperKeeps -> c
     [] c = "a" -> "A" [] c = "b" -> "B" [] c = "c" -> "C" [] c = "d" -> "D"
     [] c = "e" -> "E" [] c = "f" -> "F" [] c = "g" -> "G" [] c = "h" -> "H"
     [] c = "i" -> "I" [] c = "j" -> "J" [] c = "k" -> "K" [] c = "l" -> "L"
     [] c = "m" -> "M" [] c = "n" -> "N" [] c = "o" -> "O" [] c = "p" -> "P"
     [] c = "q" -> "Q" [] c = "r" -> "R" [] c = "s" -> "S" [] c = "t" -> "T"
     [] c = "u" -> "U" [] c = "v" -> "V" [] c = "w" -> "W" [] c = "x" -> "X"
     [] c = "y" -> "Y" [] c = "z" -> "Z" [] c = "ß" -> "SS"
     [] c = "µ" -> "Μ"
     [] c = "à" -> "À" [] c = "á" -> "Á" [] c = "â" -> "Â" [] c = "ã" -> "Ã"
     [] c = "ä" -> "Ä" [] c = "å" -> "Å" [] c = "æ" -> "Æ" [] c = "ç" -> "Ç"
     [] c = "è" -> "È" [] c = "é" -> "É" [] c = "ê" -> "Ê" [] c = "ë" -> "Ë"
     [] c = "ì" -> "Ì" [] c = "í" -> "Í" [] c = "î" -> "Î" [] c = "ï" -> "Ï"
     [] c = "ð" -> "Ð" [] c = "ñ" -> "Ñ" [] c = "ò" -> "Ò" [] c = "ó" -> "Ó"
     [] c = "ô" -> "Ô" [] c = "õ" -> "Õ" [] c = "ö" -> "Ö" [] c = "ø" -> "Ø"
     [] c = "ù" -> "Ù" [] c = "ú" -> "Ú" [] c = "û" -> "Û" [] c = "ü" -> "Ü"
     [] c = "ý" -> "Ý" [] c = "þ" -> "Þ"

\* Mutant: the name goes upstream as it was given.
UpperAsGiven(method) == method

\* method.upper(): every character of the string in upper case.
RECURSIVE Upper(_)
Upper(method) ==
    IF method = "" THEN ""
    ELSE UpperChar(SubSeq(method, 1, 1)) \o Upper(SubSeq(method, 2, Len(method)))

\* Mutant: the service data of kinesis-video-archived-media has an operation
\* describe_stream of its own.
ServiceModelColliding(service) ==
    CASE service = "kinesisvideo" -> {"describe_stream", "get_data_endpoint", "list_streams"}
      [] service = "kinesis-video-media" -> {"get_media"}
      [] service = "kinesis-video-archived-media" -> {"list_fragments", "describe_stream"}
      [] OTHER -> {}

\* prototype.meta.method_to_api_mapping.keys() as botocore's service models
\* give it (PutMedia is not in botocore's model of kinesis-video-media).
ServiceModelMethods(service) ==
    CASE service = "kinesisvideo" -> {"describe_stream", "get_data_endpoint", "list_streams"}
      [] service = "kinesis-video-media" -> {"get_media"}
      [] service = "kinesis-video-archived-media" -> {"list_fragments"}
      [] OTHER -> {}

\* The service data of the botocore that is installed.
BotocoreModels ==
    [service \in {"kinesisvideo", "kinesis-video-media", "kinesis-video-archived-media"}
        |-> ServiceModelMethods(service)]

NoClient == [id |-> 0, service |-> "", endpoint |-> None, ops |-> {}]

\* self._session.client(service, endpoint_url=endpoint_url): a new object.
SessionClient(id, service, endpoint_url) ==
    [id |-> id, service |-> service, endpoint |-> endpoint_url,
     ops |-> models[service]]

_patch_kinesis_video_media(client) ==
    [client EXCEPT !.ops = @ \cup {"put_media"}]

\* Mutant: only the default client of the service is patched.
NewClientPatchedDefault(id, service, endpoint_url) ==
    LET client == SessionClient(id, service, endpoint_url)
    IN  IF service = "kinesis-video-media" /\ endpoint_url = None
        THEN _patch_kinesis_video_media(client)
        ELSE client

\* The body of _get_client_for_service.
NewClientForService(id, service, endpoint_url) ==
    LET client == SessionClient(id, service, endpoint_url)
    IN  IF service = "kinesis-video-media"
        THEN _patch_kinesis_video_media(client)
        ELSE client

----------------------------------------------------------------------------
\* functools.lru_cache(maxsize=128): a cache is the sequence of its entries,
\* least recently used first.

CacheHas(cache, key) == \E i \in 1..Len(cache) : cache[i].key = key

CacheIndex(cache, key) == CHOOSE i \in 1..Len(cache) : cache[i].key = key

CacheGet(cache, key) == cache[CacheIndex(cache, key)].val

\* A hit moves the entry to the most recently used end.
CacheTouch(cache, key) ==
    LET i == CacheIndex(cache, key)
    IN  Append(SubSeq(cache, 1, i - 1) \o SubSeq(cache, i + 1, Len(cache)), cache[i])

\* Mutant: the result stored last replaces the one stored first.
CachePutLast(cache, key, val) ==
    IF CacheHas(cache, key)
    THEN [cache EXCEPT ![CacheIndex(cache, key)].val = val]
    ELSE Append(cache, [key |-> key, val |-> val])

\* After the wrapped function returned: a key another caller stored meanwhile
\* is left as it is, a full cache drops its oldest entry.
CachePut(cache, key, val) ==
    IF CacheHas(cache, key) THEN cache
    ELSE IF Len(cache) >= MaxSize
         THEN Append(Tail(cache), [key |-> key, val |-> val])
         ELSE Append(cache, [key |-> key, val |-> val])

\* The cache keys lru_cache makes of the positional and keyword arguments.
ArgsKey(self, method, filtered) == <<self, method, filtered>>
\* Mutant: the key of a stream name is the same for every facade.
ArnKeyOfClass(self, stream_name) == <<0, stream_name>>
ArnKey(self, stream_name) == <<self, stream_name>>
EpKey(self, stream_arn, method) == <<self, stream_arn, method>>
\* _get_client_for_service(service) and _get_client_for_service(service, endpoint_url)
\* are two shapes of key.
SvcKeyDefault(self, service) == <<self, service>>
SvcKeyBound(self, service, endpoint_url) == <<self, service, endpoint_url>>

----------------------------------------------------------------------------
\* Keyword arguments: a sequence of <<name, value>> with distinct names, in
\* the order of the call.

IsReserved(item) == item[1] \in DOMAIN kwarg_map

\* filtered_kwargs of _api_call.
Filtered(kwargs) ==
    LET kept == SelectSeq(kwargs, IsReserved)
    IN  [i \in 1..Len(kept) |-> <<kwarg_map[kept[i][1]], kept[i][2]>>]

\* The value a keyword parameter takes: the one passed, else the default None.
Arg(kw, name) ==
    IF \E i \in 1..Len(kw) : kw[i][1] = name
    THEN kw[CHOOSE i \in 1..Len(kw) : kw[i][1] = name][2]
    ELSE None

----------------------------------------------------------------------------
\* History variables.

Count(f, key) == IF key \in DOMAIN f THEN f[key] ELSE 0

Bump(f, key) == IF key \in DOMAIN f THEN [f EXCEPT ![key] = @ + 1] ELSE f @@ (key :> 1)

Handed(f, key) == IF key \in DOMAIN f THEN f[key] ELSE {}

Hand(f, key, id) ==
    IF key \in DOMAIN f THEN [f EXCEPT ![key] = @ \cup {id}] ELSE f @@ (key :> {id})

Remember(f, key, val) == IF key \in DOMAIN f THEN f ELSE f @@ (key :> val)

EmptyFun == [x \in {} |-> 0]

\* Per resolver cache, thread and key: how many lookups of the key by the
\* thread missed, and how many times the thread ran what the cache wraps (the
\* describe call, the get-endpoint call, the construction of a client).
NoLookups == [arn |-> EmptyFun, ep |-> EmptyFun, svc |-> EmptyFun]

By(t, key) == <<t>> \o key

----------------------------------------------------------------------------
\* __init__: one prototype client per service through the client cache, and
\* every method the prototype advertises registered to that service, a later
\* service overwriting an earlier one.  InitServices is __init__ run from
\* start to end with no other thread in the process, as for the first facade.

\* Mutant: a method keeps the service that registered it first.
RegisteredFirst(meths, service, ops) ==
    [m \in DOMAIN meths \cup ops |-> IF m \in DOMAIN meths THEN meths[m] ELSE service]

Registered(meths, service, ops) ==
    [m \in DOMAIN meths \cup ops |-> IF m \in ops THEN service ELSE meths[m]]

RECURSIVE InitServices(_, _, _, _)
InitServices(self, services, i, st) ==
    IF i > Len(services) THEN st
    ELSE LET service == services[i]
             key == SvcKeyDefault(self, service)
             hit == CacheHas(st.svc, key)
             prototype == IF hit THEN CacheGet(st.svc, key)
                          ELSE NewClientForService(st.next, service, None)
         IN  InitServices(self, services, i + 1,
                 [svc |-> IF hit THEN CacheTouch(st.svc, key)
                          ELSE CachePut(st.svc, key, prototype),
                  next |-> IF hit THEN st.next ELSE st.next + 1,
                  meths |-> Registered(st.meths, service, prototype.ops),
                  handed |-> Hand(st.handed, key, prototype.id)])

KinesisVideoInit(self, svc, next, handed) ==
    InitServices(self, CONTROL_SERVICES \o DATA_SERVICES, 1,
                 [svc |-> svc, next |-> next, meths |-> EmptyFun, handed |-> handed])

\* An _api_call activation: the closure's self, method and kwargs, where it
\* stands, and the locals of _get_client_by_arguments.  An activation of
\* __init__ has the position i in the loop over the services and the
\* self._methods built so far in meths.
NewFrame(self, method, kwargs) ==
    [self |-> self, method |-> method, kwargs |-> kwargs, pc |-> "args_lookup",
     service |-> "", arn |-> None, ep |-> None, client |-> NoClient,
     i |-> 0, meths |-> EmptyFun]

\* How a thread's last top-level dispatch ended (kind), what it was, and how
\* the dispatch before it ended if that was the same call (repeats).
NoOutcome ==
    [kind |-> "none", self |-> 0, method |-> "", kwargs |-> <<>>, repeats |-> "none"]

Started(t, kind, self, method, kwargs) ==
    [kind |-> kind, self |-> self, method |-> method, kwargs |-> kwargs,
     repeats |-> IF /\ outcome[t].self = self
                    /\ outcome[t].method = method
                    /\ outcome[t].kwargs = kwargs
                 THEN outcome[t].kind ELSE "none"]

\* The first facade of the process.
Facade1 == KinesisVideoInit(1, <<>>, 1, EmptyFun)

Threads == DOMAIN stack

InitOf(servicedata, threads) ==
    /\ models = servicedata
    /\ methods = (1 :> Facade1.meths)
    /\ argsCache = <<>>
    /\ arnCache = <<>>
    /\ epCache = <<>>
    /\ svcCache = Facade1.svc
    /\ stack = [t \in threads |-> <<>>]
    /\ outcome = [t \in threads |-> NoOutcome]
    /\ trace = [t \in threads |-> <<>>]
    /\ nextId = Facade1.next
    /\ ndisp = 0
    /\ hist = [describes |-> EmptyFun, getendpoints |-> EmptyFun,
               firstArn |-> EmptyFun, handed |-> Facade1.handed,
               resolved |-> {}, located |-> {}, byname |-> {},
               misses |-> NoLookups, calls |-> NoLookups]

InitWith(threads) == InitOf(BotocoreModels, threads)

----------------------------------------------------------------------------
\* The activation on top of a thread's stack.

Top(t) == stack[t][Len(stack[t])]

At(t, pc) == stack[t] # <<>> /\ Top(t).pc = pc

WithTop(t, frame) == [stack EXCEPT ![t] = [@ EXCEPT ![Len(@)] = frame]]

stream_name(frame) == Arg(Filtered(frame.kwargs), "stream_name")
stream_arn(frame) == Arg(Filtered(frame.kwargs), "stream_arn")

\* Mutant: the control service is resolved like a data service.
IsAnyService(service) == service \in Range(CONTROL_SERVICES \o DATA_SERVICES)

\* Line 61: service in self._DATA_SERVICES.
IsData(service) == service \in Range(DATA_SERVICES)

FrameArgsKey(frame) == ArgsKey(frame.self, frame.method, Filtered(frame.kwargs))
FrameArnKey(frame) == ArnKey(frame.self, stream_name(frame))
FrameEpKey(frame) == EpKey(frame.self, frame.arn, frame.method)
\* Mutant: line 70 passes the service alone too.
FrameSvcKeyNoEndpoint(frame) == SvcKeyDefault(frame.self, frame.service)

\* Line 62 passes the service alone, line 70 the service and the endpoint.
FrameSvcKey(frame) ==
    IF IsData(frame.service)
    THEN SvcKeyBound(frame.self, frame.service, frame.ep)
    ELSE SvcKeyDefault(frame.self, frame.service)

\* An upstream event of thread t's activation on top: a client obtained from
\* the client cache (ok: newly constructed) or a call on a client with the
\* keyword arguments kwargs (ok: it returned,
\* an answer a; None without one).  depth is the nesting of the activation.
Event(ev, t, kwargs, client, ok, a) ==
    [ev |-> ev, method |-> Top(t).method, kwargs |-> kwargs,
     client |-> client, ok |-> ok, answer |-> a, depth |-> Len(stack[t])]

\* Line 73: method in self._methods.
Known(self, method) == method \in DOMAIN methods[self]

\* Mutants of the check: "or" for "^", and "not both".
EitherOne(name, arn) == Truthy(name) \/ Truthy(arn)
NotBoth(name, arn) == ~(Truthy(name) /\ Truthy(arn))

\* Line 63: bool(stream_name) ^ bool(stream_arn).
ExactlyOne(name, arn) == Truthy(name) # Truthy(arn)

\* An exception leaves every activation of the thread; no cache wrapper
\* catches it, so nothing is stored.
Raise(t, kind) ==
    /\ stack' = [stack EXCEPT ![t] = <<>>]
    /\ outcome' = [outcome EXCEPT ![t].kind = kind]

\* Names that ordinary attribute lookup finds on a facade: its own attributes,
\* those of the class and those every object has.  __getattr__ runs only for
\* a name that ordinary lookup does not find, so it never sees these.
FoundOrdinarily ==
    {"_session", "_methods", "_CONTROL_SERVICES", "_DATA_SERVICES",
     "_get_arn_for_stream_name", "_get_endpoint_for_stream_method",
     "_get_client_for_service", "_get_client_by_arguments",
     "_patch_kinesis_video_media", "__getattr__", "__init__", "__dict__",
     "__weakref__", "__module__", "__doc__", "__class__", "__new__",
     "__repr__", "__str__", "__hash__", "__format__", "__sizeof__", "__dir__",
     "__getattribute__", "__setattr__", "__delattr__", "__eq__", "__ne__",
     "__lt__", "__le__", "__gt__", "__ge__", "__reduce__", "__reduce_ex__",
     "__getstate__", "__subclasshook__", "__init_subclass__"}

\* Line 74, getattr(super(), method): the object that super() returns has
\* four attributes of its own, which this returns instead of raising: the
\* class (twice), the facade, and a method wrapper.
SuperClass == {"__thisclass__", "__self_class__"}
SuperAttributes == SuperClass \cup {"__self__", "__get__"}

\* Line 28: KinesisVideo(**kwargs) takes session and nothing else.
AcceptedByInit(kwargs) == \A i \in 1..Len(kwargs) : kwargs[i][1] = "session"

\* The object that KinesisVideo() creates next.
FreshFacade ==
    CHOOSE n \in 1..(Cardinality(DOMAIN methods) + Cardinality(DOMAIN stack) + 1) :
        /\ n \notin DOMAIN methods
        /\ \A u \in DOMAIN stack : \A k \in 1..Len(stack[u]) : stack[u][k].self # n
        /\ \A m \in 1..(n - 1) :
               \/ m \in DOMAIN methods
               \/ \E u \in DOMAIN stack : \E k \in 1..Len(stack[u]) : stack[u][k].self = m

\* The activation of __init__ for a new object self, at line 31.
InitFrame(self) ==
    [NewFrame(self, "__init__", <<>>) EXCEPT
        !.pc = "init_lookup", !.i = 1,
        !.service = (CONTROL_SERVICES \o DATA_SERVICES)[1]]

\* facade.<method>(**kwargs) by a caller: __getattr__, then what it returned
\* is called.  For an operation that is _api_call (lines 76-79).  For any
\* other name it is what line 74 found on the super object: nothing (the
\* attribute error), the class, whose call constructs a further facade when
\* __init__ accepts the arguments, or an object that cannot be called so.
Begin(t, self, method, kwargs) ==
    /\ stack[t] = <<>>
    /\ method \notin FoundOrdinarily
    /\ ndisp' = ndisp + 1
    /\ trace' = [trace EXCEPT ![t] = <<>>]
    /\ CASE Known(self, method) ->
              /\ outcome' = [outcome EXCEPT ![t] =
                     Started(t, "running", self, method, kwargs)]
              /\ stack' = [stack EXCEPT ![t] = <<NewFrame(self, method, kwargs)>>]
         [] ~Known(self, method) /\ method \in SuperClass /\ AcceptedByInit(kwargs) ->
              /\ outcome' = [outcome EXCEPT ![t] =
                     Started(t, "running", self, method, kwargs)]
              /\ stack' = [stack EXCEPT ![t] = <<InitFrame(FreshFacade)>>]
         [] ~Known(self, method) /\ method \in SuperClass /\ ~AcceptedByInit(kwargs) ->
              /\ outcome' = [outcome EXCEPT ![t] =
                     Started(t, "TypeError", self, method, kwargs)]
              /\ UNCHANGED stack
         [] ~Known(self, method) /\ method \in SuperAttributes \ SuperClass ->
              /\ outcome' = [outcome EXCEPT ![t] =
                     Started(t, "TypeError", self, method, kwargs)]
              /\ UNCHANGED stack
         [] OTHER ->
              /\ outcome' = [outcome EXCEPT ![t] =
                     Started(t, "AttributeError", self, method, kwargs)]
              /\ UNCHANGED stack
    /\ UNCHANGED <<models, methods, argsCache, arnCache, epCache, svcCache, nextId, hist>>

\* self.<method>(**kwargs) inside a resolver: the same __getattr__ and
\* _api_call, one activation deeper.
Nested(t, waiting, method, kwargs) ==
    LET frame == Top(t)
    IN  IF ~Known(frame.self, method)
        THEN Raise(t, "AttributeError")
        ELSE /\ stack' = [stack EXCEPT ![t] =
                    Append([@ EXCEPT ![Len(@)] = [frame EXCEPT !.pc = waiting]],
                           NewFrame(frame.self, method, kwargs))]
             /\ UNCHANGED outcome

\* KinesisVideo() once more in the same process, by thread t: __init__ starts
\* for a new object self.  The caches are those of the class; the object is
\* not known to any caller before __init__ has returned.
Construct(t, self) ==
    /\ stack[t] = <<>>
    /\ self \notin DOMAIN methods
    /\ \A u \in Threads : \A k \in 1..Len(stack[u]) : stack[u][k].self # self
    /\ stack' = [stack EXCEPT ![t] = <<InitFrame(self)>>]
    /\ outcome' = [outcome EXCEPT ![t] = NoOutcome]
    /\ trace' = [trace EXCEPT ![t] = <<>>]
    /\ UNCHANGED <<models, methods, argsCache, arnCache, epCache, svcCache, nextId,
                   ndisp, hist>>

\* Lines 33-34 for the prototype of the service at hand, and the loop of
\* line 31 moves on to the next service or ends.
InitRegistered(frame, prototype) ==
    LET services == CONTROL_SERVICES \o DATA_SERVICES
    IN  [frame EXCEPT
            !.meths = Registered(@, frame.service, prototype.ops),
            !.i = @ + 1,
            !.service = IF frame.i < Len(services) THEN services[frame.i + 1] ELSE "",
            !.pc = IF frame.i < Len(services) THEN "init_lookup" ELSE "init_done"]

\* Line 32, the cache wrapper of _get_client_for_service: a hit returns the
\* prototype, a miss enters the body.
InitLookup(t) ==
    /\ At(t, "init_lookup")
    /\ LET key == SvcKeyDefault(Top(t).self, Top(t).service)
       IN  IF CacheHas(svcCache, key)
           THEN /\ svcCache' = CacheTouch(svcCache, key)
                /\ stack' = WithTop(t, InitRegistered(Top(t), CacheGet(svcCache, key)))
                /\ trace' = [trace EXCEPT ![t] =
                                 Append(@, Event("client", t, <<>>,
                                                 CacheGet(svcCache, key), FALSE, None))]
                /\ hist' = [hist EXCEPT !.handed =
                                Hand(@, key, CacheGet(svcCache, key).id)]
           ELSE /\ stack' = WithTop(t, [Top(t) EXCEPT !.pc = "init_body"])
                /\ hist' = [hist EXCEPT !.misses.svc = Bump(@, By(t, key))]
                /\ UNCHANGED <<svcCache, trace>>
    /\ UNCHANGED <<models, methods, argsCache, arnCache, epCache, outcome,
                   nextId, ndisp>>

\* Line 32, the body of _get_client_for_service (lines 53-56) constructs the
\* prototype; the cache is not touched and no lock is held.
InitBody(t) ==
    /\ At(t, "init_body")
    /\ stack' = WithTop(t, [Top(t) EXCEPT
                     !.client = NewClientForService(nextId, Top(t).service, None),
                     !.pc = "init_store"])
    /\ nextId' = nextId + 1
    /\ hist' = [hist EXCEPT !.calls.svc =
                    Bump(@, By(t, SvcKeyDefault(Top(t).self, Top(t).service)))]
    /\ UNCHANGED <<models, methods, argsCache, arnCache, epCache, svcCache, outcome,
                   trace, ndisp>>

\* Line 32, the wrapper stores the prototype the body returned and returns
\* it, and lines 33-34 register its methods in the object under construction.
InitStore(t) ==
    /\ At(t, "init_store")
    /\ LET key == SvcKeyDefault(Top(t).self, Top(t).service)
           prototype == Top(t).client
       IN  /\ svcCache' = CachePut(svcCache, key, prototype)
           /\ stack' = WithTop(t, InitRegistered(Top(t), prototype))
           /\ trace' = [trace EXCEPT ![t] =
                            Append(@, Event("client", t, <<>>, prototype, TRUE, None))]
           /\ hist' = [hist EXCEPT !.handed = Hand(@, key, prototype.id)]
    /\ UNCHANGED <<models, methods, argsCache, arnCache, epCache, outcome, nextId,
                   ndisp>>

\* __init__ returns: the object, with its self._methods, is the caller's.  A
\* dispatch that called the class ends with the new facade as its result.
InitReturn(t) ==
    /\ At(t, "init_done")
    /\ methods' = methods @@ (Top(t).self :> Top(t).meths)
    /\ stack' = [stack EXCEPT ![t] = <<>>]
    /\ outcome' = [outcome EXCEPT ![t].kind =
                      IF @ = "running" THEN "KinesisVideo" ELSE @]
    /\ UNCHANGED <<models, argsCache, arnCache, epCache, svcCache, trace,
                   nextId, ndisp, hist>>

\* _get_client_by_arguments, the cache wrapper: a hit.
ArgsHit(t) ==
    /\ At(t, "args_lookup")
    /\ CacheHas(argsCache, FrameArgsKey(Top(t)))
    /\ argsCache' = CacheTouch(argsCache, FrameArgsKey(Top(t)))
    /\ stack' = WithTop(t, [Top(t) EXCEPT
                     !.client = CacheGet(argsCache, FrameArgsKey(Top(t))),
                     !.pc = "call"])
    /\ UNCHANGED <<models, methods, arnCache, epCache, svcCache, outcome, trace, nextId,
                   ndisp, hist>>

\* Mutant: line 68 resolves the name whether or not one was given.
ArgsMissResolving(t) ==
    /\ At(t, "args_lookup")
    /\ ~CacheHas(argsCache, FrameArgsKey(Top(t)))
    /\ LET frame == Top(t)
           service == methods[frame.self][frame.method]
       IN  IF ~IsData(service)
           THEN /\ stack' = WithTop(t, [frame EXCEPT !.service = service,
                                                     !.pc = "svc_lookup"])
                /\ UNCHANGED outcome
           ELSE IF ~ExactlyOne(stream_name(frame), stream_arn(frame))
           THEN Raise(t, "ParamValidationError")
           ELSE /\ stack' = WithTop(t, [frame EXCEPT !.service = service,
                                                     !.pc = "arn_lookup"])
                /\ UNCHANGED outcome
    /\ UNCHANGED <<models, methods, argsCache, arnCache, epCache, svcCache, trace, nextId,
                   ndisp, hist>>

\* _get_client_by_arguments, a miss: the body up to its first cached call.
ArgsMiss(t) ==
    /\ At(t, "args_lookup")
    /\ ~CacheHas(argsCache, FrameArgsKey(Top(t)))
    /\ LET frame == Top(t)
           service == methods[frame.self][frame.method]
       IN  IF ~IsData(service)
           THEN /\ stack' = WithTop(t, [frame EXCEPT !.service = service,
                                                     !.pc = "svc_lookup"])
                /\ UNCHANGED outcome
           ELSE IF ~ExactlyOne(stream_name(frame), stream_arn(frame))
           THEN Raise(t, "ParamValidationError")
           ELSE IF Truthy(stream_name(frame))
           THEN /\ stack' = WithTop(t, [frame EXCEPT !.service = service,
                                                     !.pc = "arn_lookup"])
                /\ UNCHANGED outcome
           ELSE /\ stack' = WithTop(t, [frame EXCEPT !.service = service,
                                                     !.arn = stream_arn(frame),
                                                     !.pc = "ep_lookup"])
                /\ UNCHANGED outcome
    /\ UNCHANGED <<models, methods, argsCache, arnCache, epCache, svcCache, trace, nextId,
                   ndisp, hist>>

\* _get_arn_for_stream_name, the cache wrapper: a hit.
ArnHit(t) ==
    /\ At(t, "arn_lookup")
    /\ CacheHas(arnCache, FrameArnKey(Top(t)))
    /\ arnCache' = CacheTouch(arnCache, FrameArnKey(Top(t)))
    /\ stack' = WithTop(t, [Top(t) EXCEPT
                     !.arn = CacheGet(arnCache, FrameArnKey(Top(t))),
                     !.pc = "ep_lookup"])
    /\ UNCHANGED <<models, methods, argsCache, epCache, svcCache, outcome, trace, nextId,
                   ndisp, hist>>

\* _get_arn_for_stream_name, a miss: self.describe_stream(StreamName=stream_name).
ArnMiss(t) ==
    /\ At(t, "arn_lookup")
    /\ ~CacheHas(arnCache, FrameArnKey(Top(t)))
    /\ Nested(t, "arn_call", "describe_stream",
              <<(<<"StreamName", stream_name(Top(t))>>)>>)
    /\ hist' = [hist EXCEPT !.misses.arn = Bump(@, By(t, FrameArnKey(Top(t))))]
    /\ UNCHANGED <<models, methods, argsCache, arnCache, epCache, svcCache, trace, nextId,
                   ndisp>>

\* _get_arn_for_stream_name returned: the wrapper stores the result.
ArnStore(t) ==
    /\ At(t, "arn_store")
    /\ arnCache' = CachePut(arnCache, FrameArnKey(Top(t)), Top(t).arn)
    /\ stack' = WithTop(t, [Top(t) EXCEPT !.pc = "ep_lookup"])
    /\ UNCHANGED <<models, methods, argsCache, epCache, svcCache, outcome, trace, nextId,
                   ndisp, hist>>

\* Where _get_endpoint_for_stream_method returns to: line 70 of
\* _get_client_by_arguments, or the caller that called the resolver itself.
AfterEp(frame) == IF frame.service = "" THEN "ep_done" ELSE "svc_lookup"

\* _get_endpoint_for_stream_method, the cache wrapper: a hit.
EpHit(t) ==
    /\ At(t, "ep_lookup")
    /\ CacheHas(epCache, FrameEpKey(Top(t)))
    /\ epCache' = CacheTouch(epCache, FrameEpKey(Top(t)))
    /\ stack' = WithTop(t, [Top(t) EXCEPT
                     !.ep = CacheGet(epCache, FrameEpKey(Top(t))),
                     !.pc = AfterEp(Top(t))])
    /\ UNCHANGED <<models, methods, argsCache, arnCache, svcCache, outcome, trace, nextId,
                   ndisp, hist>>

\* _get_endpoint_for_stream_method, a miss:
\* self.get_data_endpoint(StreamARN=stream_arn, APIName=method.upper()).
EpMiss(t) ==
    /\ At(t, "ep_lookup")
    /\ ~CacheHas(epCache, FrameEpKey(Top(t)))
    /\ Nested(t, "ep_call", "get_data_endpoint",
              <<(<<"StreamARN", Top(t).arn>>), (<<"APIName", Upper(Top(t).method)>>)>>)
    /\ hist' = [hist EXCEPT !.misses.ep = Bump(@, By(t, FrameEpKey(Top(t))))]
    /\ UNCHANGED <<models, methods, argsCache, arnCache, epCache, svcCache, trace, nextId,
                   ndisp>>

\* _get_endpoint_for_stream_method returned: the wrapper stores the result.
EpStore(t) ==
    /\ At(t, "ep_store")
    /\ epCache' = CachePut(epCache, FrameEpKey(Top(t)), Top(t).ep)
    /\ stack' = WithTop(t, [Top(t) EXCEPT !.pc = AfterEp(Top(t))])
    /\ UNCHANGED <<models, methods, argsCache, arnCache, svcCache, outcome, trace, nextId,
                   ndisp, hist>>

\* facade._get_endpoint_for_stream_method(stream_arn, method) by a caller:
\* the resolver on its own, outside _get_client_by_arguments.
ResolveEndpoint(t, self, arn, method) ==
    /\ stack[t] = <<>>
    /\ ndisp' = ndisp + 1
    /\ trace' = [trace EXCEPT ![t] = <<>>]
    /\ outcome' = [outcome EXCEPT ![t] =
           Started(t, "running", self, "_get_endpoint_for_stream_method",
                   <<(<<"stream_arn", arn>>), (<<"method", method>>)>>)]
    /\ stack' = [stack EXCEPT ![t] =
           <<[NewFrame(self, method, <<>>) EXCEPT !.arn = arn, !.pc = "ep_lookup"]>>]
    /\ UNCHANGED <<models, methods, argsCache, arnCache, epCache, svcCache, nextId, hist>>

\* The resolver called on its own returns the endpoint to its caller.
EpReturn(t) ==
    /\ At(t, "ep_done")
    /\ stack' = [stack EXCEPT ![t] = <<>>]
    /\ outcome' = [outcome EXCEPT ![t].kind = "ok"]
    /\ UNCHANGED <<models, methods, argsCache, arnCache, epCache, svcCache, trace, nextId,
                   ndisp, hist>>

\* _get_client_for_service, the cache wrapper: a hit.
SvcHit(t) ==
    /\ At(t, "svc_lookup")
    /\ CacheHas(svcCache, FrameSvcKey(Top(t)))
    /\ LET client == CacheGet(svcCache, FrameSvcKey(Top(t)))
       IN  /\ svcCache' = CacheTouch(svcCache, FrameSvcKey(Top(t)))
           /\ stack' = WithTop(t, [Top(t) EXCEPT !.client = client,
                                                 !.pc = "args_store"])
           /\ trace' = [trace EXCEPT ![t] =
                            Append(@, Event("client", t, Top(t).kwargs, client, FALSE, None))]
           /\ hist' = [hist EXCEPT !.handed =
                            Hand(@, FrameSvcKey(Top(t)), client.id)]
    /\ UNCHANGED <<models, methods, argsCache, arnCache, epCache, outcome, nextId, ndisp>>

\* _get_client_for_service, a miss: the body is entered.
SvcMiss(t) ==
    /\ At(t, "svc_lookup")
    /\ ~CacheHas(svcCache, FrameSvcKey(Top(t)))
    /\ stack' = WithTop(t, [Top(t) EXCEPT !.pc = "svc_body"])
    /\ hist' = [hist EXCEPT !.misses.svc = Bump(@, By(t, FrameSvcKey(Top(t))))]
    /\ UNCHANGED <<models, methods, argsCache, arnCache, epCache, svcCache, outcome, trace,
                   nextId, ndisp>>

\* The body of _get_client_for_service, lines 53-56: a client is constructed;
\* the cache is not touched and no lock is held.
SvcBody(t) ==
    /\ At(t, "svc_body")
    /\ stack' = WithTop(t, [Top(t) EXCEPT
                     !.client = NewClientForService(nextId, Top(t).service, Top(t).ep),
                     !.pc = "svc_store"])
    /\ nextId' = nextId + 1
    /\ hist' = [hist EXCEPT !.calls.svc = Bump(@, By(t, FrameSvcKey(Top(t))))]
    /\ UNCHANGED <<models, methods, argsCache, arnCache, epCache, svcCache, outcome, trace,
                   ndisp>>

\* _get_client_for_service returned: the wrapper stores the client and
\* returns the one the body constructed.
SvcStore(t) ==
    /\ At(t, "svc_store")
    /\ LET client == Top(t).client
       IN  /\ svcCache' = CachePut(svcCache, FrameSvcKey(Top(t)), client)
           /\ stack' = WithTop(t, [Top(t) EXCEPT !.pc = "args_store"])
           /\ trace' = [trace EXCEPT ![t] =
                            Append(@, Event("client", t, Top(t).kwargs, client, TRUE, None))]
           /\ hist' = [hist EXCEPT !.handed =
                            Hand(@, FrameSvcKey(Top(t)), client.id)]
    /\ UNCHANGED <<models, methods, argsCache, arnCache, epCache, outcome, nextId, ndisp>>

\* _get_client_by_arguments returned: the wrapper stores the client.
ArgsStore(t) ==
    /\ At(t, "args_store")
    /\ argsCache' = CachePut(argsCache, FrameArgsKey(Top(t)), Top(t).client)
    /\ stack' = WithTop(t, [Top(t) EXCEPT !.pc = "call"])
    /\ hist' = IF Truthy(stream_name(Top(t))) /\ Top(t).arn # None
               THEN [hist EXCEPT !.byname = @ \cup {<<Top(t).self, Top(t).method,
                                                      Top(t).arn, Top(t).client.id>>}]
               ELSE hist
    /\ UNCHANGED <<models, methods, arnCache, epCache, svcCache, outcome, trace, nextId,
                   ndisp>>

\* What the service answers to a call, a being the ARN or the endpoint it names.
Response(method, a) ==
    CASE method = "describe_stream" -> [StreamInfo |-> [StreamARN |-> a]]
      [] method = "get_data_endpoint" -> [DataEndpoint |-> a]
      [] OTHER -> [Payload |-> a]

\* The resolver whose upstream call the activation on top of t's stack is, if any.
Caller(t) == stack[t][Len(stack[t]) - 1]
ResolvesArn(t) == Len(stack[t]) > 1 /\ Caller(t).pc = "arn_call"
ResolvesEp(t) == Len(stack[t]) > 1 /\ Caller(t).pc = "ep_call"

Issued(t) ==
    [hist EXCEPT
        !.describes = IF ResolvesArn(t) THEN Bump(@, FrameArnKey(Caller(t))) ELSE @,
        !.getendpoints = IF ResolvesEp(t) THEN Bump(@, FrameEpKey(Caller(t))) ELSE @,
        !.calls.arn = IF ResolvesArn(t) THEN Bump(@, By(t, FrameArnKey(Caller(t)))) ELSE @,
        !.calls.ep = IF ResolvesEp(t) THEN Bump(@, By(t, FrameEpKey(Caller(t)))) ELSE @]

\* getattr(client, method)(**kwargs) returns response: the dispatch returns it
\* to the caller, a resolver takes its field.
Return(t, response) ==
    IF Len(stack[t]) = 1
    THEN /\ stack' = [stack EXCEPT ![t] = <<>>]
         /\ outcome' = [outcome EXCEPT ![t].kind = "ok"]
         /\ hist' = Issued(t)
    ELSE /\ outcome' = outcome
         /\ IF Caller(t).pc = "arn_call"
            THEN /\ stack' = [stack EXCEPT ![t] =
                        Append(SubSeq(@, 1, Len(@) - 2),
                               [Caller(t) EXCEPT
                                   !.arn = response["StreamInfo"]["StreamARN"],
                                   !.pc = "arn_store"])]
                 /\ hist' = [Issued(t) EXCEPT
                        !.firstArn = Remember(@, FrameArnKey(Caller(t)),
                                              response["StreamInfo"]["StreamARN"]),
                        !.resolved = @ \cup {<<Caller(t).self, stream_name(Caller(t)),
                                                response["StreamInfo"]["StreamARN"]>>}]
            ELSE /\ stack' = [stack EXCEPT ![t] =
                        Append(SubSeq(@, 1, Len(@) - 2),
                               [Caller(t) EXCEPT
                                   !.ep = response["DataEndpoint"],
                                   !.pc = "ep_store"])]
                 /\ hist' = [Issued(t) EXCEPT
                        !.located = @ \cup {<<Caller(t).self, Caller(t).arn,
                                               Caller(t).method,
                                               response["DataEndpoint"]>>}]

\* Mutant: line 79 calls with **filtered_kwargs.
ForwardedFiltered(frame) == Filtered(frame.kwargs)

\* Line 79 calls with **kwargs, the arguments as the caller gave them.
ForwardedKwargs(frame) == frame.kwargs

\* Line 79: the call on the client; the service answers a.
ApiCall(t, a) ==
    /\ At(t, "call")
    /\ IF Top(t).method \notin Top(t).client.ops
       THEN /\ Raise(t, "AttributeError")
            /\ UNCHANGED <<trace, hist>>
       ELSE /\ trace' = [trace EXCEPT ![t] =
                            Append(@, Event("call", t, ForwardedKwargs(Top(t)), Top(t).client, TRUE, a))]
            /\ Return(t, Response(Top(t).method, a))
    /\ UNCHANGED <<models, methods, argsCache, arnCache, epCache, svcCache, nextId, ndisp>>

\* Mutant: a resolver whose call failed leaves an entry without a value.
ApiCallFailsCached(t) ==
    /\ At(t, "call")
    /\ Top(t).method \in Top(t).client.ops
    /\ trace' = [trace EXCEPT ![t] =
                     Append(@, Event("call", t, ForwardedKwargs(Top(t)), Top(t).client, FALSE, None))]
    /\ hist' = Issued(t)
    /\ Raise(t, "UpstreamError")
    /\ arnCache' = IF ResolvesArn(t)
                   THEN CachePut(arnCache, FrameArnKey(Caller(t)), None)
                   ELSE arnCache
    /\ epCache' = IF ResolvesEp(t)
                  THEN CachePut(epCache, FrameEpKey(Caller(t)), None)
                  ELSE epCache
    /\ UNCHANGED <<models, methods, argsCache, svcCache, nextId, ndisp>>

\* Mutant: a call that failed is made again.
ApiCallRetried(t) ==
    /\ At(t, "call")
    /\ Top(t).method \in Top(t).client.ops
    /\ trace' = [trace EXCEPT ![t] =
                     Append(@, Event("call", t, ForwardedKwargs(Top(t)), Top(t).client, FALSE, None))]
    /\ hist' = Issued(t)
    /\ UNCHANGED <<stack, outcome>>
    /\ UNCHANGED <<models, methods, argsCache, arnCache, epCache, svcCache, nextId, ndisp>>

\* Line 79: the call on the client fails; the error reaches the caller.
ApiCallFails(t) ==
    /\ At(t, "call")
    /\ Top(t).method \in Top(t).client.ops
    /\ trace' = [trace EXCEPT ![t] =
                     Append(@, Event("call", t, ForwardedKwargs(Top(t)), Top(t).client, FALSE, None))]
    /\ hist' = Issued(t)
    /\ Raise(t, "UpstreamError")
    /\ UNCHANGED <<models, methods, argsCache, arnCache, epCache, svcCache, nextId, ndisp>>

----------------------------------------------------------------------------
\* Spec: one facade, one thread, a bounded number of dispatches of any method
\* with any keyword arguments; the control plane may answer anything and any
\* call may fail.

Values == 0..MaxVal
\* The ARN or endpoint the control plane names in an answer: what it named
\* before, or another one (the stream was deleted and created again).
Answers == {1, 2}

DispatchMethods ==
    {"describe_stream", "put_media", "list_fragments", "no_such_operation",
     "__thisclass__"}

\* The StreamARN values callers pass: empty, or an ARN the control plane names.
ArnValues == {0, 1}

\* StreamName and StreamARN each absent, empty or set, and one more argument
\* that is not reserved.
ReservedChoices ==
    {<<>>}
    \cup {<<(<<"StreamName", v>>)>> : v \in Values}
    \cup {<<(<<"StreamARN", w>>)>> : w \in ArnValues}
    \cup {<<(<<"StreamName", v>>), (<<"StreamARN", w>>)>> : v \in Values, w \in ArnValues}

KwargsChoices ==
    ReservedChoices
    \cup {Append(kw, <<"Payload", 1>>) : kw \in {k \in ReservedChoices : Len(k) <= 1}}

Init == InitWith({1})

Dispatch ==
    /\ ndisp < MaxDispatch
    /\ \E t \in Threads, method \in DispatchMethods, kwargs \in KwargsChoices :
           Begin(t, 1, method, kwargs)

InitLookedUp == \E t \in Threads : InitLookup(t)
InitConstructed == \E t \in Threads : InitBody(t)
InitStored == \E t \in Threads : InitStore(t)
InitReturned == \E t \in Threads : InitReturn(t)

ArgsLookupHit == \E t \in Threads : ArgsHit(t)
ArgsLookupMiss == \E t \in Threads : ArgsMiss(t)
ArnLookupHit == \E t \in Threads : ArnHit(t)
ArnLookupMiss == \E t \in Threads : ArnMiss(t)
ArnStored == \E t \in Threads : ArnStore(t)
EpLookupHit == \E t \in Threads : EpHit(t)
EpLookupMiss == \E t \in Threads : EpMiss(t)
EpStored == \E t \in Threads : EpStore(t)
SvcLookupHit == \E t \in Threads : SvcHit(t)
SvcLookupMiss == \E t \in Threads : SvcMiss(t)
SvcConstructed == \E t \in Threads : SvcBody(t)
SvcStored == \E t \in Threads : SvcStore(t)
ArgsStored == \E t \in Threads : ArgsStore(t)
Called == \E t \in Threads, a \in Answers : ApiCall(t, a)
CallFailed == \E t \in Threads : ApiCallFails(t)

Steps ==
    \/ ArgsLookupHit
    \/ ArgsLookupMiss
    \/ ArnLookupHit
    \/ ArnLookupMiss
    \/ ArnStored
    \/ EpLookupHit
    \/ EpLookupMiss
    \/ EpStored
    \/ SvcLookupHit
    \/ SvcLookupMiss
    \/ SvcConstructed
    \/ SvcStored
    \/ ArgsStored

Next ==
    \/ Dispatch
    \/ InitLookedUp
    \/ InitConstructed
    \/ InitStored
    \/ InitReturned
    \/ Steps
    \/ Called
    \/ CallFailed

Spec == Init /\ [][Next]_vars

----------------------------------------------------------------------------
\* SpecLRU: one facade, one thread, a caller that works through many streams:
\* every dispatch is put_media for a stream not used before, or, once MaxSize
\* streams were used, a call for the first stream again, by name or by ARN.  Every stream exists
\* and keeps its ARN and its endpoint (stream n has ARN n and endpoint n); no
\* call fails.

DispatchLRU ==
    /\ ndisp < MaxDispatchLRU
    /\ \E t \in Threads :
           \/ Begin(t, 1, "put_media", <<(<<"StreamName", ndisp + 1>>)>>)
           \/ /\ ndisp >= MaxSize
              /\ \E method \in {"put_media", "get_media"} :
                     Begin(t, 1, method, <<(<<"StreamName", 1>>)>>)
           \/ /\ ndisp >= MaxSize
              /\ Begin(t, 1, "put_media", <<(<<"StreamARN", 1>>)>>)

\* The ARN of the stream named, the endpoint of the stream with the ARN.
SteadyAnswer(t) ==
    IF Top(t).method = "describe_stream" THEN Arg(Top(t).kwargs, "StreamName")
    ELSE IF Top(t).method = "get_data_endpoint" THEN Arg(Top(t).kwargs, "StreamARN")
    ELSE 1

CalledSteady == \E t \in Threads : At(t, "call") /\ ApiCall(t, SteadyAnswer(t))

NextLRU ==
    \/ DispatchLRU
    \/ Steps
    \/ CalledSteady

SpecLRU == Init /\ [][NextLRU]_vars

----------------------------------------------------------------------------
\* SpecThreads: one facade called from two threads, whose steps interleave at
\* every cache access and upstream call.  The threads call data-plane
\* operations for the same stream, by name or by ARN; the control plane may
\* answer anything to a resolver, and any call of a resolver may fail (the
\* caller may then dispatch again).

InitThreads == InitWith({1, 2})

DispatchThreads ==
    /\ ndisp < MaxDispatchThreads
    /\ \E t \in Threads, method \in {"put_media"},
          kwargs \in {<<(<<"StreamName", 1>>)>>, <<(<<"StreamARN", 1>>)>>} :
           Begin(t, 1, method, kwargs)

\* A call returns: the control plane names any ARN or endpoint; what the
\* forwarded call answers plays no part.
CalledThreads ==
    \E t \in Threads :
        /\ At(t, "call")
        /\ IF Len(stack[t]) > 1
           THEN \E a \in Answers : ApiCall(t, a)
           ELSE ApiCall(t, 1)

\* A call of a resolver fails.
CallFailedThreads == \E t \in Threads : Len(stack[t]) > 1 /\ ApiCallFails(t)

NextThreads ==
    \/ DispatchThreads
    \/ Steps
    \/ CalledThreads
    \/ CallFailedThreads

SpecThreads == InitThreads /\ [][NextThreads]_vars

----------------------------------------------------------------------------
\* SpecFacades: one thread that constructs facades, by the class or by what a
\* facade gives for the class, and calls them, in a process
\* whose botocore may name one more operation, tag_stream, in the service data
\* of any of the three services.  The stream is deleted and created again
\* before every construction of a further facade, so the ARN and the endpoint
\* the control plane names are those of the latest creation; no call fails.

Services == Range(CONTROL_SERVICES \o DATA_SERVICES)

ServiceData ==
    {[service \in Services |->
         IF service \in sharing
         THEN ServiceModelMethods(service) \cup {"tag_stream"}
         ELSE ServiceModelMethods(service)] : sharing \in SUBSET Services}

InitFacades == \E servicedata \in ServiceData : InitOf(servicedata, {1})

Constructed ==
    /\ Cardinality(DOMAIN methods) < MaxFacades
    /\ \E t \in Threads : Construct(t, Cardinality(DOMAIN methods) + 1)

DispatchFacades ==
    /\ ndisp < MaxDispatchFacades
    /\ \E t \in Threads, self \in DOMAIN methods :
           \/ \E method \in {"tag_stream", "put_media", "no_such_operation"},
                 kwargs \in {<<(<<"StreamName", 1>>)>>, <<(<<"StreamARN", 1>>)>>} :
                  Begin(t, self, method, kwargs)
           \/ /\ Cardinality(DOMAIN methods) < MaxFacades
              /\ \E method \in {"__self_class__", "__self__"} :
                     Begin(t, self, method, <<(<<"session", 1>>)>>)

\* The ARN and the endpoint of the stream as created last.
CurrentAnswer == Cardinality(DOMAIN methods)

CalledCurrent == \E t \in Threads : At(t, "call") /\ ApiCall(t, CurrentAnswer)

NextFacades ==
    \/ Constructed
    \/ InitLookedUp
    \/ InitConstructed
    \/ InitStored
    \/ InitReturned
    \/ DispatchFacades
    \/ Steps
    \/ CalledCurrent

SpecFacades == InitFacades /\ [][NextFacades]_vars

----------------------------------------------------------------------------
\* SpecResolver: one facade, one thread: dispatches of data-plane operations
\* by ARN, and calls of the endpoint resolver on its own with operation names
\* in any case of letters.  The control plane may answer anything; no call
\* fails.

ResolverNames == {"get_media", "Get_Media", "GET_MEDIA", "list_fragments"}

DispatchResolver ==
    /\ ndisp < MaxDispatchResolver
    /\ \E t \in Threads :
           \/ \E method \in {"get_media", "list_fragments"}, arn \in Answers :
                  Begin(t, 1, method, <<(<<"StreamARN", arn>>)>>)
           \/ \E method \in ResolverNames, arn \in Answers :
                  ResolveEndpoint(t, 1, arn, method)

EpReturned == \E t \in Threads : EpReturn(t)

NextResolver ==
    \/ DispatchResolver
    \/ EpLookupHit
    \/ EpLookupMiss
    \/ EpStored
    \/ EpReturned
    \/ ArgsLookupHit
    \/ ArgsLookupMiss
    \/ SvcLookupHit
    \/ SvcLookupMiss
    \/ SvcConstructed
    \/ SvcStored
    \/ ArgsStored
    \/ Called

SpecResolver == Init /\ [][NextResolver]_vars

----------------------------------------------------------------------------
\* SpecLive: one facade, one thread, calls that return or fail.  The thread
\* runs on while it is inside a dispatch, and every upstream call it waits
\* for returns or fails; whether the caller dispatches again is up to it.

DispatchLive ==
    /\ ndisp < MaxDispatchLive
    /\ \E t \in Threads,
          method \in {"describe_stream", "put_media", "no_such_operation",
                      "__thisclass__"},
          kwargs \in {<<>>, <<(<<"StreamName", 1>>)>>, <<(<<"StreamARN", 1>>)>>} :
           Begin(t, 1, method, kwargs)

InitSteps == InitLookedUp \/ InitConstructed \/ InitStored \/ InitReturned

NextLive ==
    \/ DispatchLive
    \/ InitSteps
    \/ Steps
    \/ Called
    \/ CallFailed

SpecLive ==
    Init /\ [][NextLive]_vars /\ WF_vars(InitSteps \/ Steps \/ Called \/ CallFailed)

----------------------------------------------------------------------------
\* SpecConstruct: two threads and one shared class-level client cache: thread
\* 1 constructs further facades while thread 2 dispatches on the first one.
\* The construction is not atomic: between two of its client lookups the
\* other thread may run a whole dispatch, and the entries of both end up
\* interleaved in the cache.

InitConstruct == InitWith({1, 2})

ConstructedBeside ==
    /\ Cardinality(DOMAIN methods) < MaxFacades
    /\ Construct(1, Cardinality(DOMAIN methods) + 1)

DispatchBeside ==
    /\ ndisp < MaxDispatchConstruct
    /\ \E method \in {"describe_stream", "put_media"},
          kwargs \in {<<(<<"StreamName", 1>>)>>, <<(<<"StreamARN", 1>>)>>} :
           Begin(2, 1, method, kwargs)

NextConstruct ==
    \/ ConstructedBeside
    \/ InitLookedUp
    \/ InitConstructed
    \/ InitStored
    \/ InitReturned
    \/ DispatchBeside
    \/ Steps
    \/ CalledCurrent

SpecConstruct == InitConstruct /\ [][NextConstruct]_vars

----------------------------------------------------------------------------
\* Vocabulary of the properties.

Caches == <<argsCache, arnCache, epCache, svcCache>>

KwHas(kwargs, k) == \E i \in 1..Len(kwargs) : kwargs[i][1] = k

\* The top-level dispatch thread t made last (outcome[t] keeps its arguments).
Requested(t) == outcome[t].kind # "none"
OwnerOf(t) == methods[outcome[t].self][outcome[t].method]
InCatalog(t) == outcome[t].method \in DOMAIN methods[outcome[t].self]
DataRequest(t) ==
    /\ Requested(t)
    /\ InCatalog(t)
    /\ OwnerOf(t) \in {"kinesis-video-media", "kinesis-video-archived-media"}
ControlRequest(t) ==
    /\ Requested(t)
    /\ InCatalog(t)
    /\ OwnerOf(t) = "kinesisvideo"
NameGiven(t) == KwHas(outcome[t].kwargs, "StreamName")
ArnGiven(t) == KwHas(outcome[t].kwargs, "StreamARN")
NameOf(t) == Arg(outcome[t].kwargs, "StreamName")
ArnOf(t) == Arg(outcome[t].kwargs, "StreamARN")

Sig(e) == <<e.ev, e.method, e.depth>>
IsDefaultControl(client) ==
    client.service = "kinesisvideo" /\ client.endpoint = None

\* The dispatch raised the configuration error before doing anything: no
\* upstream call, no client obtained, nothing beyond the first cache lookup.
Rejected(t) ==
    /\ trace[t] = <<>>
    /\ stack[t] = <<>> => outcome[t].kind = "ParamValidationError"
    /\ stack[t] # <<>> => Len(stack[t]) = 1 /\ Top(t).pc = "args_lookup"

----------------------------------------------------------------------------
\* C1: the first dispatch of a facade (all resolver caches cold), for a
\* data-plane operation with only a StreamName, issues its upstream events in
\* this order and no others: the describe call on the default control client
\* with that name, the get-endpoint call carrying the ARN the describe call
\* returned, one client obtained for (owning service, returned endpoint), the
\* forwarded call on that client; a dispatch that returned has issued all.
C1_Expected(t) ==
    << <<"client", "describe_stream", 2>>, <<"call", "describe_stream", 2>>,
       <<"client", "get_data_endpoint", 2>>, <<"call", "get_data_endpoint", 2>>,
       <<"client", outcome[t].method, 1>>, <<"call", outcome[t].method, 1>> >>

\* C1: the first dispatch of a facade, a data-plane operation given only a
\* non-empty StreamName, makes exactly the calls of C1_Expected, in that order.
C1_ColdDispatchByName ==
    \A t \in Threads :
        (ndisp = 1 /\ DataRequest(t) /\ NameGiven(t) /\ ~ArnGiven(t) /\ Truthy(NameOf(t)))
        => LET tr == trace[t]
           IN  /\ Len(tr) <= 6
               /\ \A i \in 1..Len(tr) : Sig(tr[i]) = C1_Expected(t)[i]
               /\ outcome[t].kind = "ok" => Len(tr) = 6
               /\ Len(tr) >= 2 =>
                      /\ IsDefaultControl(tr[2].client)
                      /\ tr[2].kwargs = <<(<<"StreamName", NameOf(t)>>)>>
               /\ Len(tr) >= 4 =>
                      /\ tr[2].ok
                      /\ IsDefaultControl(tr[4].client)
                      /\ Arg(tr[4].kwargs, "StreamARN") = tr[2].answer
               /\ Len(tr) >= 5 =>
                      /\ tr[4].ok
                      /\ tr[5].client.service = OwnerOf(t)
                      /\ tr[5].client.endpoint = tr[4].answer
               /\ Len(tr) = 6 => tr[6].client = tr[5].client

C1_Witness ==
    \E t \in Threads :
        /\ ndisp = 1 /\ DataRequest(t) /\ NameGiven(t) /\ ~ArnGiven(t)
        /\ outcome[t].kind = "ok"
        /\ Len(trace[t]) = 6
        /\ trace[t][6].client.endpoint = 2

\* C2 as stated: a data-plane dispatch whose keyword arguments hold both
\* StreamName and StreamARN, whatever their values, is rejected with the
\* configuration error before any upstream call or client.
C2_BothPresentRejected ==
    \A t \in Threads :
        (DataRequest(t) /\ NameGiven(t) /\ ArnGiven(t)) => Rejected(t)

\* C2, amended: a data-plane dispatch whose keyword arguments hold both
\* StreamName and StreamARN is rejected with the configuration error, before
\* any upstream call or client, when both values are non-empty or both are
\* empty.
C2_BothSetRejected ==
    \A t \in Threads :
        (DataRequest(t) /\ NameGiven(t) /\ ArnGiven(t)
         /\ Truthy(NameOf(t)) = Truthy(ArnOf(t))) => Rejected(t)

C2_Witness ==
    \E t \in Threads :
        /\ DataRequest(t) /\ Truthy(NameOf(t)) /\ Truthy(ArnOf(t))
        /\ outcome[t].kind = "ParamValidationError"
        /\ trace[t] = <<>>

\* C3: a data-plane dispatch with neither StreamName nor StreamARN is rejected
\* with the configuration error before any upstream call or client, its steps
\* change none of the four caches, and the client-by-arguments cache never
\* holds an entry for such a dispatch, so a repetition is rejected again.
C3_NeitherState ==
    /\ \A t \in Threads :
          (DataRequest(t) /\ ~NameGiven(t) /\ ~ArnGiven(t)) => Rejected(t)
    /\ \A i \in 1..Len(argsCache) :
          LET key == argsCache[i].key
          IN  methods[key[1]][key[2]] # "kinesisvideo" => key[3] # <<>>

C3_NeitherStep ==
    \A t \in Threads :
        (DataRequest(t) /\ ~NameGiven(t) /\ ~ArnGiven(t) /\ stack[t] # <<>>)
        => Caches' = Caches

\* C3: a data-plane dispatch with neither key is rejected with no call and no
\* client, and no step of a rejected dispatch changes a cache.
C3_NeitherRejected == [](C3_NeitherState) /\ [][C3_NeitherStep]_vars

C3_Witness ==
    \E t \in Threads :
        /\ DataRequest(t) /\ ~NameGiven(t) /\ ~ArnGiven(t)
        /\ outcome[t].repeats = "ParamValidationError"
        /\ outcome[t].kind = "ParamValidationError"

\* C8: a dispatch of a control-plane operation, whatever it holds of
\* StreamName and StreamARN, is never rejected and never resolves anything:
\* its only upstream events are the default control client taken from the
\* client cache (unless the client-by-arguments cache served it) and then one
\* call of the operation on it with the caller's keyword arguments; a
\* dispatch that returned has made that call.
C8_ControlForwarded ==
    \A t \in Threads :
        ControlRequest(t)
        => /\ outcome[t].kind \in {"running", "ok", "UpstreamError"}
           /\ Len(stack[t]) <= 1
           /\ Len(trace[t]) <= 2
           /\ \A i \in 1..Len(trace[t]) :
                  LET e == trace[t][i]
                  IN  /\ e.ev = "client" => i = 1
                      /\ e.ev = "call" => i = Len(trace[t])
                      /\ e.depth = 1
                      /\ e.method = outcome[t].method
                      /\ e.kwargs = outcome[t].kwargs
                      /\ IsDefaultControl(e.client)
                      /\ e.ev = "client" => ~e.ok
           /\ outcome[t].kind = "ok" =>
                  /\ trace[t] # <<>>
                  /\ trace[t][Len(trace[t])].ev = "call"
                  /\ trace[t][Len(trace[t])].ok

C8_Witness ==
    \E t \in Threads :
        /\ ControlRequest(t)
        /\ Truthy(NameOf(t)) /\ Truthy(ArnOf(t))
        /\ outcome[t].kind = "ok"
        /\ Len(trace[t]) = 2

\* C9: every call a dispatch forwards to a client carries exactly the keyword
\* arguments of the caller, in particular StreamName as given and no
\* StreamARN the caller did not give.
C9_KwargsUnchanged ==
    \A t \in Threads :
        \A i \in 1..Len(trace[t]) :
            (trace[t][i].ev = "call" /\ trace[t][i].depth = 1)
            => /\ trace[t][i].kwargs = outcome[t].kwargs
               /\ trace[t][i].method = outcome[t].method

C9_Witness ==
    \E t \in Threads :
        /\ DataRequest(t) /\ Truthy(NameOf(t)) /\ ~ArnGiven(t)
        /\ KwHas(outcome[t].kwargs, "Payload")
        /\ outcome[t].kind = "ok"
        /\ Len(trace[t]) = 6
        /\ trace[t][6].kwargs = outcome[t].kwargs

\* C10: a request for a name that is not in the catalog ends with the
\* unknown-attribute error, which is neither the configuration error nor an
\* upstream error, with no upstream event and no activation, and the step that
\* makes the request changes no cache and constructs no client.
C10_UnknownState ==
    \A t \in Threads :
        (Requested(t) /\ ~InCatalog(t))
        => /\ outcome[t].kind = "AttributeError"
           /\ trace[t] = <<>>
           /\ stack[t] = <<>>

C10_UnknownStep ==
    \A t \in Threads :
        (outcome'[t] # outcome[t]
         /\ outcome'[t].method \notin DOMAIN methods[outcome'[t].self])
        => /\ Caches' = Caches
           /\ nextId' = nextId
           /\ hist' = hist

\* C10: a dispatch of a name outside the catalog ends with the attribute
\* error, and no step of it makes a call or changes a cache.
C10_UnknownOperation == [](C10_UnknownState) /\ [][C10_UnknownStep]_vars

----------------------------------------------------------------------------
\* The resolutions of a stream name that thread t's activations hold: the
\* ARN an activation works with once its name is resolved.
HoldsArn(frame) ==
    /\ frame.pc \in {"arn_store", "ep_lookup", "ep_call", "ep_store", "svc_lookup",
                     "svc_body", "svc_store", "args_store"}
    /\ frame.service \in {"kinesis-video-media", "kinesis-video-archived-media"}
    /\ Truthy(stream_name(frame))

\* C4 as stated: the resolutions of one stream name by one facade issue at
\* most one describe call together, and each of them yields the ARN the first
\* describe call returned.
C4_OneDescribePerName ==
    /\ \A key \in DOMAIN hist.describes : hist.describes[key] <= 1
    /\ \A t \in Threads : \A i \in 1..Len(stack[t]) :
          HoldsArn(stack[t][i])
          => stack[t][i].arn = hist.firstArn[FrameArnKey(stack[t][i])]

\* C5 as stated: an entry of any of the four caches stays, with its value, in
\* every later state.
EntriesKept(cache, later) ==
    \A i \in 1..Len(cache) :
        /\ CacheHas(later, cache[i].key)
        /\ CacheGet(later, cache[i].key) = cache[i].val

C5_Step ==
    /\ EntriesKept(argsCache, argsCache')
    /\ EntriesKept(arnCache, arnCache')
    /\ EntriesKept(epCache, epCache')
    /\ EntriesKept(svcCache, svcCache')

\* C5: no step removes an entry of the four caches or changes its value.
C5_CachesOnlyGrow == [][C5_Step]_vars

\* C6 as stated: all requests for the client of one (service, endpoint) of one
\* facade are handed the same client object, and requests for different
\* (service, endpoint) are handed different objects.
C6_OneClientPerEndpoint ==
    /\ \A key \in DOMAIN hist.handed : Cardinality(hist.handed[key]) <= 1
    /\ \A k1, k2 \in DOMAIN hist.handed :
          k1 # k2 => hist.handed[k1] \cap hist.handed[k2] = {}

\* C7 as stated: for every key of the three resolver caches, at most one
\* underlying describe call, get-endpoint call or client construction is ever
\* performed, also when threads resolve the key concurrently.
C7_OneCallPerKey ==
    /\ \A key \in DOMAIN hist.describes : hist.describes[key] <= 1
    /\ \A key \in DOMAIN hist.getendpoints : hist.getendpoints[key] <= 1
    /\ \A key \in DOMAIN hist.handed : Cardinality(hist.handed[key]) <= 1

\* What a thread ran for a key, it ran after a lookup of the key by the thread
\* itself had missed: one run per miss.
RunsFollowMisses(misses, calls) ==
    \A x \in DOMAIN calls : Count(calls, x) <= Count(misses, x)

\* A lookup misses only while the key has no entry.
MissesWhenAbsent(misses, later, cache) ==
    \A x \in DOMAIN later :
        Count(later, x) > Count(misses, x) => ~CacheHas(cache, Tail(x))

\* No entry is replaced: a key that has an entry before and after a step has
\* the same value.
NeverReplaced(cache, later) ==
    \A i \in 1..Len(cache) :
        CacheHas(later, cache[i].key) => CacheGet(later, cache[i].key) = cache[i].val

\* Thread t stores a result for a key that got an entry meanwhile: the
\* cache stays as it is, and the thread goes on with its own result.
LateStore(t, pc, cache, later, key, field) ==
    (/\ At(t, pc)
     /\ CacheHas(cache, key)
     /\ stack'[t] # stack[t])
    => /\ later = cache
       /\ stack'[t] # <<>>
       /\ stack'[t][Len(stack[t])][field] = Top(t)[field]

C7_State ==
    /\ RunsFollowMisses(hist.misses.arn, hist.calls.arn)
    /\ RunsFollowMisses(hist.misses.ep, hist.calls.ep)
    /\ RunsFollowMisses(hist.misses.svc, hist.calls.svc)

C7_Step ==
    /\ MissesWhenAbsent(hist.misses.arn, hist'.misses.arn, arnCache)
    /\ MissesWhenAbsent(hist.misses.ep, hist'.misses.ep, epCache)
    /\ MissesWhenAbsent(hist.misses.svc, hist'.misses.svc, svcCache)
    /\ NeverReplaced(arnCache, arnCache')
    /\ NeverReplaced(epCache, epCache')
    /\ NeverReplaced(svcCache, svcCache')
    /\ \A t \in Threads :
           /\ LateStore(t, "arn_store", arnCache, arnCache', FrameArnKey(Top(t)), "arn")
           /\ LateStore(t, "ep_store", epCache, epCache', FrameEpKey(Top(t)), "ep")
           /\ LateStore(t, "svc_store", svcCache, svcCache', FrameSvcKey(Top(t)), "client")

\* C7, amended: threads that resolve a key concurrently for the first time
\* each perform the underlying call or construction, once per lookup of
\* theirs that missed, and a lookup misses only while the key has no entry;
\* at most one of their results populates the entry: a result that arrives
\* when the key has an entry is not stored and replaces nothing, and its
\* thread goes on with its own result.
C7_OneCallPerThreadFirstStored == [](C7_State) /\ [][C7_Step]_vars

\* Both threads missed the name and each made the describe call once; the
\* answer stored first is the entry, and the other thread goes on with its
\* own, different answer.
C7_Witness ==
    \E key \in DOMAIN hist.describes :
        /\ hist.describes[key] = 2
        /\ \A u \in Threads :
               /\ Count(hist.misses.arn, By(u, key)) = 1
               /\ Count(hist.calls.arn, By(u, key)) = 1
        /\ CacheHas(arnCache, key)
        /\ \E t \in Threads :
               /\ stack[t] # <<>>
               /\ stack[t][1].pc = "ep_lookup"
               /\ HoldsArn(stack[t][1])
               /\ FrameArnKey(stack[t][1]) = key
               /\ stack[t][1].arn # CacheGet(arnCache, key)

----------------------------------------------------------------------------
\* The surfaces in the order of registration, and the surfaces whose prototype
\* client of facade self advertises a name.
SurfaceOrder == <<"kinesisvideo", "kinesis-video-media", "kinesis-video-archived-media">>

Advertising(self, name) ==
    {i \in 1..3 : name \in CacheGet(svcCache, <<self, SurfaceOrder[i]>>).ops}

LastOf(S) == CHOOSE i \in S : \A j \in S : j <= i

OperationNames ==
    UNION {models[service] : service \in DOMAIN models}
    \cup {"put_media", "tag_stream", "no_such_operation"}

C11_State ==
    \A self \in DOMAIN methods :
        /\ DOMAIN methods[self] \subseteq OperationNames
        /\ \A name \in OperationNames :
              IF Advertising(self, name) = {}
              THEN /\ name \notin DOMAIN methods[self]
                   /\ \A t \in Threads :
                          (outcome[t].self = self /\ outcome[t].method = name)
                          => outcome[t].kind = "AttributeError"
              ELSE /\ name \in DOMAIN methods[self]
                   /\ methods[self][name] = SurfaceOrder[LastOf(Advertising(self, name))]

C11_Step ==
    \A self \in DOMAIN methods :
        self \in DOMAIN methods' /\ methods'[self] = methods[self]

\* C11: the catalog of a facade maps every name that a surface advertises to
\* the last surface, in the order control, media, archived-media, that
\* advertises it, holds no other name (looking one up ends with the attribute
\* error), and no step after the construction changes it.
C11_CatalogLastRegistered == [](C11_State) /\ [][C11_Step]_vars

C11_Witness ==
    \E t \in Threads :
        /\ outcome[t].kind = "ok"
        /\ outcome[t].method = "tag_stream"
        /\ Cardinality(Advertising(outcome[t].self, "tag_stream")) >= 2
        /\ trace[t][Len(trace[t])].ev = "call"
        /\ trace[t][Len(trace[t])].client.service
               = SurfaceOrder[LastOf(Advertising(outcome[t].self, "tag_stream"))]

----------------------------------------------------------------------------
\* C12: put_media is in the catalog of every facade, owned by
\* kinesis-video-media; every client of that service in the client cache or
\* obtained by a dispatch supports put_media; a put_media dispatch is rejected
\* unless exactly one of StreamName and StreamARN is set, never ends with the
\* attribute error, and forwards its call on a kinesis-video-media client
\* bound to an endpoint that the endpoint cache holds for put_media.
C12_PutMediaRouted ==
    /\ \A self \in DOMAIN methods :
          /\ "put_media" \in DOMAIN methods[self]
          /\ methods[self]["put_media"] = "kinesis-video-media"
    /\ \A i \in 1..Len(svcCache) :
          svcCache[i].val.service = "kinesis-video-media"
          => "put_media" \in svcCache[i].val.ops
    /\ \A t \in Threads :
          (Requested(t) /\ outcome[t].method = "put_media")
          => /\ outcome[t].kind # "AttributeError"
             /\ (Truthy(NameOf(t)) = Truthy(ArnOf(t))) => Rejected(t)
             /\ outcome[t].kind = "ok" =>
                    /\ trace[t] # <<>>
                    /\ trace[t][Len(trace[t])].ev = "call"
                    /\ trace[t][Len(trace[t])].depth = 1
             /\ \A i \in 1..Len(trace[t]) :
                    LET e == trace[t][i]
                    IN  /\ e.client.service = "kinesis-video-media"
                           => "put_media" \in e.client.ops
                        /\ (e.ev = "call" /\ e.depth = 1) =>
                               /\ e.method = "put_media"
                               /\ e.client.service = "kinesis-video-media"
                               /\ \E j \in 1..Len(epCache) :
                                      /\ epCache[j].key[1] = outcome[t].self
                                      /\ epCache[j].key[3] = "put_media"
                                      /\ epCache[j].val = e.client.endpoint

C12_Witness ==
    \E t \in Threads :
        /\ outcome[t].kind = "ok"
        /\ outcome[t].method = "put_media"
        /\ \E i \in 1..Len(trace[t]) :
               /\ trace[t][i].ev = "client"
               /\ trace[t][i].ok
               /\ trace[t][i].client.service = "kinesis-video-media"
               /\ trace[t][i].client.endpoint # None

----------------------------------------------------------------------------
\* An activation that holds the endpoint of its stream and method.
HoldsEp(frame) ==
    /\ frame.pc \in {"ep_store", "svc_lookup", "svc_body", "svc_store", "args_store"}
    /\ frame.service \in {"kinesis-video-media", "kinesis-video-archived-media"}

\* C13: the ARN a facade works with for a stream name is one that a describe
\* call of that same facade returned for the name, and the endpoint it works
\* with one that a get-endpoint call of that same facade returned; so a new
\* facade, which has made no call, resolves a stream with calls of its own,
\* whatever another facade holds.
C13_OwnMappings ==
    \A t \in Threads : \A i \in 1..Len(stack[t]) :
        LET frame == stack[t][i]
        IN  /\ HoldsArn(frame)
               => <<frame.self, stream_name(frame), frame.arn>> \in hist.resolved
            /\ HoldsEp(frame)
               => <<frame.self, frame.arn, frame.method, frame.ep>> \in hist.located

\* A second facade has finished a dispatch by name with an ARN and an endpoint
\* of its own calls, while the first facade holds an older ARN for the name.
C13_Witness ==
    \E t \in Threads :
        /\ outcome[t].kind = "ok"
        /\ outcome[t].self = 2
        /\ outcome[t].method = "put_media"
        /\ Truthy(NameOf(t))
        /\ Len(trace[t]) = 6
        /\ trace[t][2].ev = "call" /\ trace[t][2].method = "describe_stream"
        /\ trace[t][4].ev = "call" /\ trace[t][4].method = "get_data_endpoint"
        /\ \E j \in 1..Len(arnCache) :
               /\ arnCache[j].key = <<1, NameOf(t)>>
               /\ arnCache[j].val # trace[t][2].answer
        /\ Arg(trace[t][4].kwargs, "StreamARN") = trace[t][2].answer

----------------------------------------------------------------------------
\* C14: a call of a dispatch that failed is the last event of the dispatch,
\* which has ended with the upstream error; a dispatch ends with the upstream
\* error only after a call that failed; and a dispatch makes no call twice.
C14_FailFast ==
    \A t \in Threads :
        LET tr == trace[t]
        IN  /\ \A i \in 1..Len(tr) :
                  (tr[i].ev = "call" /\ ~tr[i].ok)
                  => /\ i = Len(tr)
                     /\ stack[t] = <<>>
                     /\ outcome[t].kind = "UpstreamError"
            /\ outcome[t].kind = "UpstreamError"
               => /\ tr # <<>>
                  /\ tr[Len(tr)].ev = "call"
                  /\ ~tr[Len(tr)].ok
            /\ \A i, j \in 1..Len(tr) :
                  (i < j /\ tr[i].ev = "call" /\ tr[j].ev = "call")
                  => tr[i].method # tr[j].method

\* The get-endpoint call of a dispatch failed after its describe call returned.
C14_Witness ==
    \E t \in Threads :
        /\ outcome[t].kind = "UpstreamError"
        /\ Len(trace[t]) = 4
        /\ trace[t][2].ev = "call" /\ trace[t][2].ok
        /\ trace[t][4].method = "get_data_endpoint"
        /\ ~trace[t][4].ok

----------------------------------------------------------------------------
\* A data-plane dispatch with StreamARN and without StreamName.
ByArnOnly(t) == DataRequest(t) /\ ArnGiven(t) /\ ~NameGiven(t)

C15_State ==
    \A t \in Threads :
        ByArnOnly(t)
        => \A i \in 1..Len(trace[t]) :
              /\ trace[t][i].method # "describe_stream"
              /\ (trace[t][i].ev = "call" /\ trace[t][i].method = "get_data_endpoint")
                 => Arg(trace[t][i].kwargs, "StreamARN") = ArnOf(t)

C15_Step ==
    \A t \in Threads :
        (ByArnOnly(t) /\ stack[t] # <<>>)
        => /\ arnCache' = arnCache
           /\ hist'.describes = hist.describes

\* C15: a data-plane dispatch given only StreamARN makes no describe call,
\* its get-endpoint call carries the StreamARN as given, and none of its
\* steps changes the cache of stream names.
C15_ByArnNoDescribe == [](C15_State) /\ [][C15_Step]_vars

C15_Witness ==
    \E t \in Threads :
        /\ ByArnOnly(t)
        /\ outcome[t].kind = "ok"
        /\ Len(trace[t]) = 4
        /\ trace[t][2].method = "get_data_endpoint"
        /\ Arg(trace[t][2].kwargs, "StreamARN") = ArnOf(t)

----------------------------------------------------------------------------
\* The operation name the endpoint resolver was given by thread t's last
\* request: the dispatched method, or the argument of a call of the resolver.
IsResolverCall(t) == outcome[t].method = "_get_endpoint_for_stream_method"

GivenName(t) ==
    IF IsResolverCall(t) THEN Arg(outcome[t].kwargs, "method") ELSE outcome[t].method

GivenArn(t) ==
    IF IsResolverCall(t) THEN Arg(outcome[t].kwargs, "stream_arn") ELSE ArnOf(t)

\* Names that differ only in the case of their letters, and the names all
\* in uppercase.
SameLetters ==
    {{"get_media", "Get_Media", "GET_MEDIA"},
     {"list_fragments", "List_Fragments", "LIST_FRAGMENTS"},
     {"put_media", "Put_Media", "PUT_MEDIA"}}

UppercaseNames == {"GET_MEDIA", "LIST_FRAGMENTS", "PUT_MEDIA"}

C16_State ==
    /\ \A t \in Threads : \A i \in 1..Len(trace[t]) :
          LET e == trace[t][i]
          IN  (e.ev = "call" /\ e.method = "get_data_endpoint")
              => /\ Arg(e.kwargs, "APIName") \in UppercaseNames
                 /\ \E class \in SameLetters :
                        GivenName(t) \in class /\ Arg(e.kwargs, "APIName") \in class
    /\ \A j \in 1..Len(epCache) :
          <<epCache[j].key[1], epCache[j].key[2], epCache[j].key[3], epCache[j].val>>
              \in hist.located
    /\ \A t \in Threads :
          (Requested(t) /\ outcome[t].kind = "ok"
              /\ (IsResolverCall(t) \/ DataRequest(t)))
          => \E j \in 1..Len(epCache) :
                epCache[j].key = <<outcome[t].self, GivenArn(t), GivenName(t)>>

\* A resolution whose exact (ARN, name) pair has no entry calls upstream,
\* whatever entries there are for names in another case.
C16_Step ==
    \A t \in Threads :
        (/\ At(t, "ep_lookup")
         /\ stack'[t] # stack[t]
         /\ ~\E j \in 1..Len(epCache) :
                epCache[j].key = <<Top(t).self, Top(t).arn, Top(t).method>>)
        => /\ Len(stack'[t]) = Len(stack[t]) + 1
           /\ stack'[t][Len(stack'[t])].method = "get_data_endpoint"

\* C16: every get-endpoint call carries the uppercase form of the operation
\* name the resolver was given; the endpoint cache holds an entry under the
\* exact (facade, ARN, name) of every resolution that returned, with the
\* endpoint the call for that exact key returned; a resolution without an
\* entry for its exact key calls upstream.
C16_UppercaseUpstreamExactKey == [](C16_State) /\ [][C16_Step]_vars

\* Two resolutions for one ARN whose names differ only in case: two entries,
\* and the second one also called upstream, with the same uppercase name.
C16_Witness ==
    \E t \in Threads :
        /\ IsResolverCall(t)
        /\ outcome[t].kind = "ok"
        /\ GivenName(t) = "Get_Media"
        /\ \E j \in 1..Len(epCache) : epCache[j].key = <<1, GivenArn(t), "get_media">>
        /\ \E j \in 1..Len(epCache) : epCache[j].key = <<1, GivenArn(t), "Get_Media">>
        /\ trace[t] # <<>>
        /\ trace[t][Len(trace[t])].ev = "call"
        /\ trace[t][Len(trace[t])].method = "get_data_endpoint"
        /\ Arg(trace[t][Len(trace[t])].kwargs, "APIName") = "GET_MEDIA"

----------------------------------------------------------------------------
\* C17 as stated: the calls that the threads' dispatches forward for one
\* (facade, service, endpoint) are all made on one client object.
C17_SameClientAcrossThreads ==
    \A t1, t2 \in Threads :
        \A i \in 1..Len(trace[t1]) : \A j \in 1..Len(trace[t2]) :
            LET e1 == trace[t1][i]
                e2 == trace[t2][j]
            IN  (/\ e1.ev = "call" /\ e2.ev = "call"
                 /\ outcome[t1].self = outcome[t2].self
                 /\ e1.client.service = e2.client.service
                 /\ e1.client.endpoint = e2.client.endpoint)
                => e1.client.id = e2.client.id

----------------------------------------------------------------------------
\* The call that failed in thread t's dispatch, which ended with its error.
Failed(t) == outcome[t].kind = "UpstreamError" /\ trace[t] # <<>>

FailedCall(t) == trace[t][Len(trace[t])]

C18_State ==
    \A t \in Threads :
        (Failed(t) /\ DataRequest(t))
        => /\ FailedCall(t).method = "describe_stream"
              => /\ ~\E j \in 1..Len(arnCache) :
                        arnCache[j].key = <<outcome[t].self, NameOf(t)>>
                 /\ ~\E j \in 1..Len(argsCache) :
                        /\ argsCache[j].key[1] = outcome[t].self
                        /\ argsCache[j].key[2] = outcome[t].method
                        /\ Arg(argsCache[j].key[3], "stream_name") = NameOf(t)
           /\ FailedCall(t).method = "get_data_endpoint"
              => /\ ~\E j \in 1..Len(epCache) :
                        epCache[j].key = <<outcome[t].self,
                                           Arg(FailedCall(t).kwargs, "StreamARN"),
                                           outcome[t].method>>
                 /\ ~\E j \in 1..Len(argsCache) :
                        /\ argsCache[j].key[1] = outcome[t].self
                        /\ argsCache[j].key[2] = outcome[t].method
                        /\ Arg(argsCache[j].key[3], "stream_name") = NameOf(t)
                        /\ Arg(argsCache[j].key[3], "stream_arn") = ArnOf(t)
                 /\ Truthy(NameOf(t))
                    => \E j \in 1..Len(arnCache) :
                          /\ arnCache[j].key = <<outcome[t].self, NameOf(t)>>
                          /\ arnCache[j].val = Arg(FailedCall(t).kwargs, "StreamARN")

C18_Step ==
    \A t \in Threads :
        /\ (outcome[t].kind = "running" /\ outcome'[t].kind = "UpstreamError")
           => Caches' = Caches
        /\ (stack[t] # <<>> /\ Len(stack'[t]) = Len(stack[t]) + 1)
           => LET frame == Top(t)
                  called == stack'[t][Len(stack'[t])].method
              IN  /\ called = "describe_stream"
                     => ~\E j \in 1..Len(arnCache) :
                           arnCache[j].key = <<frame.self, stream_name(frame)>>
                  /\ called = "get_data_endpoint"
                     => ~\E j \in 1..Len(epCache) :
                           epCache[j].key = <<frame.self, frame.arn, frame.method>>

\* C18: the step on which a call fails changes no cache, so the resolver
\* whose call failed and the dispatch have no entry for their keys while the
\* ARN resolved before a failed get-endpoint call keeps its entry; and a
\* dispatch calls describe or get-endpoint only for a key without an entry.
C18_FailureNotCached == [](C18_State) /\ [][C18_Step]_vars

\* The dispatch is repeated after its get-endpoint call failed: it returns,
\* having made the get-endpoint call again and no describe call.
C18_Witness ==
    \E t \in Threads :
        /\ DataRequest(t)
        /\ Truthy(NameOf(t))
        /\ outcome[t].repeats = "UpstreamError"
        /\ outcome[t].kind = "ok"
        /\ \A i \in 1..Len(trace[t]) : trace[t][i].method # "describe_stream"
        /\ \E i \in 1..Len(trace[t]) :
               trace[t][i].ev = "call" /\ trace[t][i].method = "get_data_endpoint"

----------------------------------------------------------------------------
\* C19 as stated: once a dispatch of a method by stream name has resolved the
\* name to an ARN and obtained its client, a dispatch of the same method that
\* gives that ARN makes no describe call and no get-endpoint call and
\* forwards its call on that same client object.
C19_LaterByArnReuses ==
    \A t \in Threads :
        ByArnOnly(t)
        => \A q \in hist.byname :
              (q[1] = outcome[t].self /\ q[2] = outcome[t].method /\ q[3] = ArnOf(t))
              => /\ \A i \in 1..Len(trace[t]) :
                        /\ trace[t][i].method = outcome[t].method
                        /\ trace[t][i].client.id = q[4]
                 /\ outcome[t].kind \in {"ok", "UpstreamError"}
                    => /\ trace[t] # <<>>
                       /\ trace[t][Len(trace[t])].ev = "call"

----------------------------------------------------------------------------
\* The calls of a method among the events of thread t's dispatch.
CallsOf(t, method) ==
    Cardinality({i \in 1..Len(trace[t]) :
                    trace[t][i].ev = "call" /\ trace[t][i].method = method})

C20_State ==
    \A t \in Threads :
        /\ Len(stack[t]) <= 2
        /\ \A i \in 1..Len(trace[t]) : trace[t][i].depth <= 2
        /\ DataRequest(t)
           => /\ CallsOf(t, "describe_stream") <= 1
              /\ CallsOf(t, "get_data_endpoint") <= 1
              /\ CallsOf(t, outcome[t].method) <= 1
              /\ Len(trace[t]) <= 6
        /\ ControlRequest(t)
           => /\ Len(stack[t]) <= 1
              /\ Len(trace[t]) <= 2
              /\ CallsOf(t, outcome[t].method) <= 1
        /\ (Requested(t) /\ ~InCatalog(t))
           => /\ Len(stack[t]) <= 1
              /\ \A i \in 1..Len(trace[t]) : trace[t][i].ev # "call"

\* C20: a dispatch nests at most one dispatch, of describe_stream or
\* get_data_endpoint, which nests none; it makes at most one describe call,
\* one get-endpoint call and one forwarded call; and a thread that is inside a
\* dispatch leaves it.
C20_Terminates ==
    /\ [](C20_State)
    /\ \A t \in {1} : (stack[t] # <<>>) ~> (stack[t] = <<>>)

C20_Witness ==
    \E t \in Threads :
        /\ outcome[t].kind = "ok"
        /\ outcome[t].method = "put_media"
        /\ stack[t] = <<>>
        /\ Len(trace[t]) = 6
        /\ trace[t][2].depth = 2
        /\ CallsOf(t, "describe_stream") = 1
        /\ CallsOf(t, "get_data_endpoint") = 1
        /\ CallsOf(t, "put_media") = 1

====
